---- MODULE Spec2Model ----
(***************************************************************************)
(* Model of backend/app.py: the /match handler (match_documents) and the   *)
(* matching engine (perform_matching_logic) it calls.                      *)
(*                                                                         *)
(* One request is followed from its arrival to its response.  The handler  *)
(* and the engine are sequential code, so the model has a single program   *)
(* counter pc and one action per block of the source.                      *)
(***************************************************************************)
EXTENDS Integers, Sequences, FiniteSets, TLC

(***************************************************************************)
(* IEEE-754 binary64 values.                                               *)
(*                                                                         *)
(* Every float the model handles is a non-negative multiple of 2^-60 below *)
(* 4096.  It is written as three 24-bit limbs <<hi, mid, lo>> standing for  *)
(* (hi * 2^48 + mid * 2^24 + lo) * 2^-60, which keeps all arithmetic       *)
(* within TLC's 32-bit integers.  The sign of a difference is not kept:    *)
(* the source only ever uses abs(x - y).                                   *)
(***************************************************************************)
LimbBase == 2^24

Zero == <<0, 0, 0>>

\* The value of a local variable that has not been assigned yet.
Unset == <<-1, -1, -1>>

\* x < y
FLess(x, y) ==
    \/ x[1] < y[1]
    \/ x[1] = y[1] /\ x[2] < y[2]
    \/ x[1] = y[1] /\ x[2] = y[2] /\ x[3] < y[3]

\* The exact value of x - y, for y <= x.
SubExact(x, y) ==
    LET b3 == IF x[3] < y[3] THEN 1 ELSE 0
        l3 == x[3] - y[3] + b3 * LimbBase
        b2 == IF x[2] - b3 < y[2] THEN 1 ELSE 0
        l2 == x[2] - b3 - y[2] + b2 * LimbBase
    IN  <<x[1] - b2 - y[1], l2, l3>>

\* The exact value of x + y.
AddExact(x, y) ==
    LET s3 == x[3] + y[3]
        c3 == s3 \div LimbBase
        s2 == x[2] + y[2] + c3
        c2 == s2 \div LimbBase
    IN  <<x[1] + y[1] + c2, s2 % LimbBase, s3 % LimbBase>>

RECURSIVE BitLen(_)
BitLen(n) == IF n = 0 THEN 0 ELSE 1 + BitLen(n \div 2)

\* The number of significant bits of x.
FBitLen(x) ==
    IF x[1] > 0 THEN 48 + BitLen(x[1])
    ELSE IF x[2] > 0 THEN 24 + BitLen(x[2])
    ELSE BitLen(x[3])

\* The binary64 nearest to the exact value x: 53 significant bits, round to
\* nearest, ties to even.  At most 72 - 53 = 19 low bits are dropped, all of
\* them in the low limb.
RoundToDouble(x) ==
    LET drop == FBitLen(x) - 53
    IN  IF drop <= 0 THEN x
        ELSE LET p    == 2^drop
                 rem  == x[3] % p
                 odd  == (x[3] \div p) % 2 = 1
                 up   == rem * 2 > p \/ (rem * 2 = p /\ odd)
                 kept == <<x[1], x[2], x[3] - rem>>
             IN  IF up THEN AddExact(kept, <<0, 0, p>>) ELSE kept

\* abs(x - y) as the source computes it: one binary64 subtraction.
AbsDiff(x, y) ==
    RoundToDouble(IF FLess(x, y) THEN SubExact(y, x) ELSE SubExact(x, y))

\* x + y as the source computes it: one binary64 addition.
FAdd(x, y) == RoundToDouble(AddExact(x, y))

(***************************************************************************)
(* JSON numbers.  A number in the text Gemini returns is a decimal         *)
(* literal, whole + frac * 10^-7; json.loads turns it into the nearest     *)
(* binary64 (or into an exact int, which has the same value here).         *)
(***************************************************************************)
Lit(w, f) == [whole |-> w, frac |-> f]

FracUnit == 10^7

\* float("<literal>"): the binary64 nearest to the decimal literal.
ParseDecimal(l) ==
    CASE l = Lit(0, 0)          -> <<0, 0, 0>>                    \* 0x0.0p+0
      [] l = Lit(0, 100000)     -> <<40, 16106127, 6039798>>      \* 0.01     = 0x1.47ae147ae147bp-7
      [] l = Lit(0, 200000)     -> <<81, 15435038, 12079596>>     \* 0.02     = 0x1.47ae147ae147bp-6
      [] l = Lit(0, 300000)     -> <<122, 14763950, 1342176>>     \* 0.03     = 0x1.eb851eb851eb8p-6
      [] l = Lit(1049, 9900000) -> <<4300759, 671088, 10747904>>  \* 1049.99  = 0x1.067f5c28f5c29p+10
      [] l = Lit(1049, 9910000) -> <<4300763, 2281701, 6291456>>  \* 1049.991 = 0x1.067f6c8b43958p+10
      [] l = Lit(1050, 0)       -> <<4300800, 0, 0>>              \* 1050     = 0x1.068p+10
      [] l = Lit(500, 0)        -> <<2048000, 0, 0>>              \* 500      = 0x1.f4p+8
      [] l = Lit(550, 0)        -> <<2252800, 0, 0>>              \* 550      = 0x1.13p+9
      [] l = Lit(550, 78125)    -> <<2252832, 0, 0>>              \* 550.0078125 = 0x1.1301p+9
      [] l = Lit(550, 156250)   -> <<2252864, 0, 0>>              \* 550.015625  = 0x1.1302p+9

\* A JSON value in a numeric position: a number literal, or a string that is
\* no number (such as "abc").
NumText(w, f) == [kind |-> "num", lit |-> Lit(w, f)]
StrText == [kind |-> "str", lit |-> Lit(0, 0)]

\* The Python value json.loads gives for it.
JsonNumber(t) ==
    [kind |-> t.kind, v |-> IF t.kind = "num" THEN ParseDecimal(t.lit) ELSE Zero]

(***************************************************************************)
(* Strings that the code inspects (vendor names) are sequences of          *)
(* characters over a small alphabet: "A", "B", "a", "b", "c" and " ".      *)
(***************************************************************************)
IsSpace(c) == c = " "

RECURSIVE LStrip(_)
LStrip(s) ==
    IF s = <<>> THEN s
    ELSE IF IsSpace(Head(s)) THEN LStrip(Tail(s)) ELSE s

RECURSIVE RStrip(_)
RStrip(s) ==
    IF s = <<>> THEN s
    ELSE IF IsSpace(s[Len(s)]) THEN RStrip(SubSeq(s, 1, Len(s) - 1)) ELSE s

\* str.strip()
Strip(s) == RStrip(LStrip(s))

LowerChar(c) == CASE c = "A" -> "a" [] c = "B" -> "b" [] OTHER -> c

\* str.lower()
Lower(s) == [i \in 1..Len(s) |-> LowerChar(s[i])]

\* How an f-string renders None.
NoneText == <<"N", "o", "n", "e">>

(***************************************************************************)
(* Extracted documents.  A dict is a record with the set `has` of the keys *)
(* it holds; a field whose key is not in `has` carries a filler that is    *)
(* never read.  Only the keys the code reads are kept (of a line item:     *)
(* line_total; unit_price is kept to show that it is never read).          *)
(***************************************************************************)
Item(has, line_total, unit_price) ==
    [has |-> has, line_total |-> line_total, unit_price |-> unit_price]

Dict(has, id, vendor, total, items) ==
    [has |-> has, id |-> id, vendor |-> vendor, total |-> total, items |-> items]

AllKeys == {"id", "vendor", "total", "items"}

\* {}
EmptyDict == Dict({}, "", <<>>, NumText(0, 0), <<>>)

\* What ai_extract_data returns when the Gemini call fails.
ErrorDict == Dict({"error"}, "", <<>>, NumText(0, 0), <<>>)

\* json.loads on a document's text: numbers become Python numbers.
JsonItem(it) ==
    [has |-> it.has, line_total |-> JsonNumber(it.line_total),
     unit_price |-> JsonNumber(it.unit_price)]

json_loads(text) ==
    [has |-> text.has, id |-> text.id, vendor |-> text.vendor,
     total |-> JsonNumber(text.total),
     items |-> [i \in 1..Len(text.items) |-> JsonItem(text.items[i])]]

(***************************************************************************)
(* perform_matching_logic: the checks, each giving its verdict `ok` and    *)
(* the entries `out` it appends to explanations.  Entries are records: the *)
(* kind names the fixed text of the message, the other fields are the      *)
(* values the f-string puts into it.                                       *)
(***************************************************************************)

\* tolerance = 0.01
tolerance == ParseDecimal(Lit(0, 100000))

\* dict.get('vendor') rendered by an f-string.
VendorText(d) == IF "vendor" \in d.has THEN d.vendor ELSE NoneText

\* dict.get('id') rendered by an f-string.
IdText(d) == IF "id" \in d.has THEN d.id ELSE "None"

\* invoice_data.get('vendor') and
\*   invoice_data['vendor'].strip().lower() == po_data.get('vendor', '').strip().lower()
VendorMatches(invoice_data, po_data) ==
    /\ "vendor" \in invoice_data.has
    /\ invoice_data.vendor # <<>>
    /\ Lower(Strip(invoice_data.vendor))
         = Lower(Strip(IF "vendor" \in po_data.has THEN po_data.vendor ELSE <<>>))

\* Faulty variant: a mismatch only clears the flag and reports nothing.
VendorCheck_SilentMismatch(invoice_data, po_data) ==
    IF VendorMatches(invoice_data, po_data)
    THEN [ok  |-> TRUE,
          out |-> <<[kind |-> "VendorMatches", vendor |-> invoice_data.vendor]>>]
    ELSE [ok  |-> FALSE, out |-> <<>>]

VendorCheck(invoice_data, po_data) ==
    IF VendorMatches(invoice_data, po_data)
    THEN [ok  |-> TRUE,
          out |-> <<[kind |-> "VendorMatches", vendor |-> invoice_data.vendor]>>]
    ELSE [ok  |-> FALSE,
          out |-> <<[kind |-> "VendorMismatch", invoice |-> VendorText(invoice_data),
                     po |-> VendorText(po_data)]>>]

\* The identifier entry: appended whatever the two ids are.
IdCheck(invoice_data, po_data) ==
    [ok  |-> TRUE,
     out |-> <<[kind |-> "IdMatched", invoice |-> IdText(invoice_data),
                po |-> IdText(po_data)]>>]

\* dict.get('total', 0.0)
GetTotal(d) == IF "total" \in d.has THEN d.total ELSE [kind |-> "num", v |-> Zero]

\* float(x) returns for a number and raises ValueError for a string that is no
\* number.
CanFloat(x) == x.kind = "num"

\* abs(inv_total - po_total) < tolerance
TotalMatches(inv_total, po_total) == FLess(AbsDiff(inv_total, po_total), tolerance)

TotalCheck(inv_total, po_total) ==
    IF TotalMatches(inv_total, po_total)
    THEN [ok  |-> TRUE,
          out |-> <<[kind |-> "TotalMatches", total |-> inv_total]>>]
    ELSE [ok  |-> FALSE,
          out |-> <<[kind |-> "TotalMismatch", invoice |-> inv_total, po |-> po_total,
                     diff |-> AbsDiff(inv_total, po_total)]>>]

\* dict.get('items', [])
GetItems(d) == IF "items" \in d.has THEN d.items ELSE <<>>

\* item.get('line_total', 0)
GetLineTotal(it) ==
    IF "line_total" \in it.has THEN it.line_total ELSE [kind |-> "num", v |-> Zero]

\* sum(...) adds from the left, starting at 0; adding a string raises TypeError.
CanSum(items) == \A i \in 1..Len(items) : GetLineTotal(items[i]).kind = "num"

RECURSIVE SumPrefix(_, _)
SumPrefix(items, n) ==
    IF n = 0 THEN Zero
    ELSE FAdd(SumPrefix(items, n - 1), GetLineTotal(items[n]).v)

\* sum(item.get('line_total', 0) for item in items).  The line totals drawn
\* below make every partial sum exact, so that left-to-right and compensated
\* summation give the same float.
SumLines(items) == SumPrefix(items, Len(items))

\* Faulty variant: the sums are taken before the counts are compared.
LineItemCheck_SumsFirst(inv_items, po_items) ==
    IF ~CanSum(inv_items)
    THEN [ok |-> FALSE, raised |-> "TypeError", inv_sum |-> Unset, po_sum |-> Unset,
          out |-> <<>>]
    ELSE IF ~CanSum(po_items)
    THEN [ok |-> FALSE, raised |-> "TypeError", inv_sum |-> SumLines(inv_items),
          po_sum |-> Unset, out |-> <<>>]
    ELSE IF Len(inv_items) # Len(po_items)
    THEN [ok |-> FALSE, raised |-> "", inv_sum |-> SumLines(inv_items),
          po_sum |-> SumLines(po_items),
          out |-> <<[kind |-> "LineItemCountMismatch", invoice |-> Len(inv_items),
                     po |-> Len(po_items)]>>]
    ELSE IF FLess(AbsDiff(SumLines(inv_items), SumLines(po_items)), tolerance)
    THEN [ok |-> TRUE, raised |-> "", inv_sum |-> SumLines(inv_items),
          po_sum |-> SumLines(po_items),
          out |-> <<[kind |-> "LineItemsMatch", sum |-> SumLines(inv_items)]>>]
    ELSE [ok |-> FALSE, raised |-> "", inv_sum |-> SumLines(inv_items),
          po_sum |-> SumLines(po_items),
          out |-> <<[kind |-> "LineItemTotalMismatch",
                     diff |-> AbsDiff(SumLines(inv_items), SumLines(po_items))]>>]

\* The line-item block.  `raised` is the exception it ends with, if any; a sum
\* left Unset was never computed.
LineItemCheck(inv_items, po_items) ==
    IF Len(inv_items) # Len(po_items)
    THEN [ok |-> FALSE, raised |-> "", inv_sum |-> Unset, po_sum |-> Unset,
          out |-> <<[kind |-> "LineItemCountMismatch", invoice |-> Len(inv_items),
                     po |-> Len(po_items)]>>]
    ELSE IF ~CanSum(inv_items)
    THEN [ok |-> FALSE, raised |-> "TypeError", inv_sum |-> Unset, po_sum |-> Unset,
          out |-> <<>>]
    ELSE IF ~CanSum(po_items)
    THEN [ok |-> FALSE, raised |-> "TypeError", inv_sum |-> SumLines(inv_items),
          po_sum |-> Unset, out |-> <<>>]
    ELSE LET inv_sum_lines == SumLines(inv_items)
             po_sum_lines  == SumLines(po_items)
         IN  IF FLess(AbsDiff(inv_sum_lines, po_sum_lines), tolerance)
             THEN [ok |-> TRUE, raised |-> "", inv_sum |-> inv_sum_lines,
                   po_sum |-> po_sum_lines,
                   out |-> <<[kind |-> "LineItemsMatch", sum |-> inv_sum_lines]>>]
             ELSE [ok |-> FALSE, raised |-> "", inv_sum |-> inv_sum_lines,
                   po_sum |-> po_sum_lines,
                   out |-> <<[kind |-> "LineItemTotalMismatch",
                              diff |-> AbsDiff(inv_sum_lines, po_sum_lines)]>>]

\* "APPROVED" if is_match else "NEEDS REVIEW"
FinalStatus(is_match) == IF is_match THEN "APPROVED" ELSE "NEEDS REVIEW"

\* explanations[0] before the checks.
Placeholder == [kind |-> "Running3WayMatch"]

\* Faulty variant: the placeholder is only replaced on approval.
Summary_KeepsPlaceholder(final_status) ==
    IF final_status = "APPROVED" THEN [kind |-> "PerfectMatch"] ELSE Placeholder

\* explanations[0] after the checks.
Summary(final_status) ==
    IF final_status = "APPROVED"
    THEN [kind |-> "PerfectMatch"]
    ELSE [kind |-> "MismatchFound", status |-> final_status]

(***************************************************************************)
(* match_documents: the conditions of its early returns.                   *)
(***************************************************************************)

\* 'invoice' not in request.files or 'po' not in request.files
FilesMissing(files) == "invoice" \notin files \/ "po" \notin files

\* extract_text_from_pdf gives None on an exception, '' for a PDF without
\* pages, and text otherwise.
TextResults == {"None", "", "text"}

\* not invoice_text or not po_text
TextMissing(invoice_text, po_text) ==
    invoice_text \in {"None", ""} \/ po_text \in {"None", ""}

\* Faulty variant: only the invoice's extraction is looked at.
ExtractionFailed_InvoiceOnly(invoice_data, po_data) == "error" \in invoice_data.has

\* "error" in invoice_data or "error" in po_data
ExtractionFailed(invoice_data, po_data) ==
    "error" \in invoice_data.has \/ "error" \in po_data.has

ErrorResponse(code) == [code |-> code, status |-> "error", explanations |-> <<>>]

\* Flask's answer to an exception the handler does not catch.
UnhandledResponse == [code |-> 500, status |-> "", explanations |-> <<>>]

NoResponse == [code |-> 0, status |-> "", explanations |-> <<>>]

(***************************************************************************)
(* The documents Gemini may return, as JSON text.  Values have the types   *)
(* of the response schema, except that a number may be missing or be a     *)
(* string that is no number; a vendor or id may be missing or empty.       *)
(***************************************************************************)
MaxItems == 3

Without(d, k) == [d EXCEPT !.has = @ \ {k}, ![k] = EmptyDict[k]]

LineItem(t) == Item({"line_total"}, t, NumText(0, 0))

Vendor_Ac  == <<"A", "c", " ">>
Vendor_ac  == <<"a", "c">>
Vendor_B   == <<"B">>

CoreVendors == {Vendor_Ac, Vendor_ac, <<>>}
CoreIds     == {"INV-1", "PO-1"}
CoreTotals  == {NumText(1050, 0), NumText(0, 0)}
CoreItems   == {LineItem(NumText(500, 0)), LineItem(NumText(550, 0))}
ItemLists   == UNION {[1..n -> CoreItems] : n \in 0..MaxItems}

CoreDocs ==
    {Dict(AllKeys, i, v, t, s) :
        i \in CoreIds, v \in CoreVendors, t \in CoreTotals, s \in ItemLists}

Base ==
    Dict(AllKeys, "INV-1", Vendor_Ac, NumText(1050, 0),
         <<LineItem(NumText(500, 0)), LineItem(NumText(550, 0))>>)

VendorDocs ==
    {[Base EXCEPT !.vendor = v] : v \in {Vendor_B, <<" ">>}}
        \cup {Without(Base, "vendor")}

IdDocs ==
    {[Base EXCEPT !.id = ""], Without(Base, "id")}

TotalDocs ==
    {[Base EXCEPT !.total = t] :
        t \in {NumText(0, 100000), NumText(0, 200000), NumText(0, 300000),
               NumText(1049, 9900000), NumText(1049, 9910000), StrText}}
        \cup {Without(Base, "total")}

ItemDocs ==
    {[Base EXCEPT !.items[2] = it] :
        it \in {LineItem(NumText(550, 78125)), LineItem(NumText(550, 156250)),
                LineItem(StrText),
                Item({}, NumText(0, 0), NumText(0, 0)),
                Item({"line_total", "unit_price"}, NumText(550, 0), StrText)}}
        \cup {Without(Base, "items")}

Docs == CoreDocs \cup {Base} \cup VendorDocs \cup IdDocs \cup TotalDocs \cup ItemDocs
            \cup {EmptyDict}

\* ai_extract_data: json.loads(response.text), or the error dict.
AiResults == {json_loads(t) : t \in Docs} \cup {ErrorDict}

(***************************************************************************)
(* State.                                                                  *)
(***************************************************************************)
VARIABLES
    pc,              \* where the handler is
    files,           \* the keys of request.files
    invoice_text,    \* match_documents' locals
    po_text,
    invoice_data,
    po_data,
    is_match,        \* perform_matching_logic's locals
    explanations,
    inv_total,
    po_total,
    inv_sum_lines,
    po_sum_lines,
    final_status,
    raised,          \* the exception that ended the handler, "" for none
    response         \* what the client gets

vars ==
    <<pc, files, invoice_text, po_text, invoice_data, po_data, is_match, explanations,
      inv_total, po_total, inv_sum_lines, po_sum_lines, final_status, raised, response>>

request  == <<files>>
handler  == <<invoice_text, po_text, invoice_data, po_data>>
totals   == <<inv_total, po_total>>
sums     == <<inv_sum_lines, po_sum_lines>>

Init ==
    /\ pc = "idle"
    /\ files = {}
    /\ invoice_text = "None"
    /\ po_text = "None"
    /\ invoice_data = EmptyDict
    /\ po_data = EmptyDict
    /\ is_match = TRUE
    /\ explanations = <<>>
    /\ inv_total = Unset
    /\ po_total = Unset
    /\ inv_sum_lines = Unset
    /\ po_sum_lines = Unset
    /\ final_status = ""
    /\ raised = ""
    /\ response = NoResponse

(***************************************************************************)
(* match_documents, up to the call of perform_matching_logic.              *)
(***************************************************************************)

\* A request arrives; without both files it is answered 400.
ReceiveRequest ==
    /\ pc = "idle"
    /\ \E fs \in SUBSET {"invoice", "po"} :
          /\ files' = fs
          /\ IF FilesMissing(fs)
             THEN pc' = "responded" /\ response' = ErrorResponse(400)
             ELSE pc' = "extract_text" /\ UNCHANGED response
    /\ UNCHANGED <<handler, is_match, explanations, totals, sums, final_status, raised>>

\* Both PDFs are read; if either gives no text the request is answered 500.
ExtractText ==
    /\ pc = "extract_text"
    /\ \E it \in TextResults, pt \in TextResults :
          /\ invoice_text' = it
          /\ po_text' = pt
          /\ IF TextMissing(it, pt)
             THEN pc' = "responded" /\ response' = ErrorResponse(500)
             ELSE pc' = "ai_extract" /\ UNCHANGED response
    /\ UNCHANGED <<request, invoice_data, po_data, is_match, explanations, totals, sums,
                   final_status, raised>>

\* Both texts go through ai_extract_data; if either call failed the request
\* is answered 500, otherwise perform_matching_logic is called.
AiExtract ==
    /\ pc = "ai_extract"
    /\ \E inv \in AiResults, po \in AiResults :
          /\ invoice_data' = inv
          /\ po_data' = po
          /\ IF ExtractionFailed(inv, po)
             THEN pc' = "responded" /\ response' = ErrorResponse(500)
             ELSE pc' = "match" /\ UNCHANGED response
    /\ UNCHANGED <<request, invoice_text, po_text, is_match, explanations, totals, sums,
                   final_status, raised>>

(***************************************************************************)
(* perform_matching_logic, block by block.                                 *)
(***************************************************************************)

\* is_match = True; explanations = [placeholder]
StartMatching ==
    /\ pc = "match"
    /\ is_match' = TRUE
    /\ explanations' = <<Placeholder>>
    /\ pc' = "vendor"
    /\ UNCHANGED <<request, handler, totals, sums, final_status, raised, response>>

\* Faulty variant: the flag takes the last check's verdict instead of keeping an
\* earlier failure.
Record_LastCheckWins(check) ==
    /\ explanations' = explanations \o check.out
    /\ is_match' = check.ok

\* The result of a check goes into is_match and explanations.
Record(check) ==
    /\ explanations' = explanations \o check.out
    /\ is_match' = (is_match /\ check.ok)

VendorStep ==
    /\ pc = "vendor"
    /\ Record(VendorCheck(invoice_data, po_data))
    /\ pc' = "id"
    /\ UNCHANGED <<request, handler, totals, sums, final_status, raised, response>>

IdStep ==
    /\ pc = "id"
    /\ Record(IdCheck(invoice_data, po_data))
    /\ pc' = "total"
    /\ UNCHANGED <<request, handler, totals, sums, final_status, raised, response>>

\* float() of a total that is no number raises ValueError, which nothing
\* catches: Flask answers 500.
Raise(exc) ==
    /\ raised' = exc
    /\ pc' = "responded"
    /\ response' = UnhandledResponse

TotalStep ==
    /\ pc = "total"
    /\ IF ~CanFloat(GetTotal(invoice_data))
       THEN /\ Raise("ValueError")
            /\ UNCHANGED <<is_match, explanations, totals>>
       ELSE IF ~CanFloat(GetTotal(po_data))
       THEN /\ Raise("ValueError")
            /\ inv_total' = GetTotal(invoice_data).v
            /\ UNCHANGED <<is_match, explanations, po_total>>
       ELSE /\ inv_total' = GetTotal(invoice_data).v
            /\ po_total' = GetTotal(po_data).v
            /\ Record(TotalCheck(GetTotal(invoice_data).v, GetTotal(po_data).v))
            /\ pc' = "items"
            /\ UNCHANGED <<raised, response>>
    /\ UNCHANGED <<request, handler, sums, final_status>>

LineItemStep ==
    /\ pc = "items"
    /\ LET check == LineItemCheck(GetItems(invoice_data), GetItems(po_data))
       IN  /\ inv_sum_lines' = check.inv_sum
           /\ po_sum_lines' = check.po_sum
           /\ IF check.raised # ""
              THEN /\ Raise(check.raised)
                   /\ UNCHANGED <<is_match, explanations>>
              ELSE /\ Record(check)
                   /\ pc' = "final"
                   /\ UNCHANGED <<raised, response>>
    /\ UNCHANGED <<request, handler, totals, final_status>>

\* final_status is set and explanations[0] overwritten; the function returns.
FinalStep ==
    /\ pc = "final"
    /\ final_status' = FinalStatus(is_match)
    /\ explanations' = [explanations EXCEPT ![1] = Summary(FinalStatus(is_match))]
    /\ pc' = "return"
    /\ UNCHANGED <<request, handler, is_match, totals, sums, raised, response>>

\* match_documents answers 200 with the status and the explanations.
Respond ==
    /\ pc = "return"
    /\ response' = [code |-> 200, status |-> final_status, explanations |-> explanations]
    /\ pc' = "responded"
    /\ UNCHANGED <<request, handler, is_match, explanations, totals, sums, final_status,
                   raised>>

Next ==
    \/ ReceiveRequest
    \/ ExtractText
    \/ AiExtract
    \/ StartMatching
    \/ VendorStep
    \/ IdStep
    \/ TotalStep
    \/ LineItemStep
    \/ FinalStep
    \/ Respond

Spec == Init /\ [][Next]_vars

(***************************************************************************)
(* Properties.                                                             *)
(*                                                                         *)
(* The source indexes explanations from 0; Entry(i) is explanations[i].    *)
(***************************************************************************)
Entry(i) == explanations[i + 1]

\* perform_matching_logic has returned.
Returned == final_status # ""

\* Both extractions are in, and neither reported a failure.
Extracted ==
    /\ pc \notin {"idle", "extract_text", "ai_extract"}
    /\ files = {"invoice", "po"}
    /\ invoice_text = "text" /\ po_text = "text"
    /\ "error" \notin invoice_data.has /\ "error" \notin po_data.has

VendorPassed == Entry(1).kind = "VendorMatches"
IdPassed     == Entry(2).kind = "IdMatched"
TotalPassed  == Entry(3).kind = "TotalMatches"
ItemsPassed  == Entry(4).kind = "LineItemsMatch"

AllPassed == VendorPassed /\ IdPassed /\ TotalPassed /\ ItemsPassed

\* A document with every field present.
Complete(d) == d.has = AllKeys

\* C1: perform_matching_logic(D, D) returns APPROVED for every document D
\* (any vendor string, the empty one included; any id, total and items), and
\* each of the four findings is the passing one.
C1_SelfMatchApproved ==
    (Returned /\ invoice_data = po_data /\ Complete(invoice_data))
        => (final_status = "APPROVED" /\ AllPassed)

\* C2: whenever perform_matching_logic returns, explanations has exactly 5
\* entries in the order summary, vendor, identifier, total, line items,
\* whatever passed or failed; each check has appended exactly one entry.
C2_FiveEntriesInOrder ==
    /\ pc = "vendor" => Len(explanations) = 1
    /\ pc = "id"     => Len(explanations) = 2
    /\ pc = "total"  => Len(explanations) = 3
    /\ pc = "items"  => Len(explanations) = 4
    /\ pc = "final"  => Len(explanations) = 5
    /\ Returned =>
          /\ Len(explanations) = 5
          /\ Entry(0).kind \in {"PerfectMatch", "MismatchFound"}
          /\ Entry(1).kind \in {"VendorMatches", "VendorMismatch"}
          /\ Entry(2).kind = "IdMatched"
          /\ Entry(3).kind \in {"TotalMatches", "TotalMismatch"}
          /\ Entry(4).kind \in
                {"LineItemsMatch", "LineItemCountMismatch", "LineItemTotalMismatch"}
    /\ response.code = 200 => response.explanations = explanations

\* A return on which the vendor and the line items failed and the total passed.
C2_Witness ==
    /\ Returned
    /\ Entry(1).kind = "VendorMismatch"
    /\ Entry(3).kind = "TotalMatches"
    /\ Entry(4).kind = "LineItemCountMismatch"

\* The four entries the checks give on their own, each from the documents
\* alone.
OwnFindings ==
    VendorCheck(invoice_data, po_data).out
        \o IdCheck(invoice_data, po_data).out
        \o TotalCheck(GetTotal(invoice_data).v, GetTotal(po_data).v).out
        \o LineItemCheck(GetItems(invoice_data), GetItems(po_data)).out

TotalLits ==
    {Lit(0, 0), Lit(0, 100000), Lit(0, 200000), Lit(0, 300000),
     Lit(1049, 9900000), Lit(1049, 9910000), Lit(1050, 0)}

\* |x - y| of two decimal literals, as a literal.
DecAbsDiff(x, y) ==
    LET hi == IF x.whole > y.whole \/ (x.whole = y.whole /\ x.frac >= y.frac) THEN x ELSE y
        lo == IF hi = x THEN y ELSE x
    IN  IF hi.frac >= lo.frac
        THEN Lit(hi.whole - lo.whole, hi.frac - lo.frac)
        ELSE Lit(hi.whole - lo.whole - 1, hi.frac + FracUnit - lo.frac)

\* d <= 0.009
AtMostNineThousandths(d) == d.whole = 0 /\ d.frac <= 90000

\* d >= 0.01
AtLeastOneCent(d) == d.whole > 0 \/ d.frac >= 100000

\* The total check has run.
TotalChecked == inv_total # Unset /\ po_total # Unset

\* C4: the total check passes exactly when |invoice.total - po.total| < 0.01:
\* totals at most 0.009 apart pass, and totals 0.01 or more apart (such as
\* 1050.00 and 1049.99) fail and take the verdict away from APPROVED.
C4_TotalTolerance ==
    TotalChecked =>
        \A x, y \in TotalLits :
            (inv_total = ParseDecimal(x) /\ po_total = ParseDecimal(y)) =>
                /\ AtMostNineThousandths(DecAbsDiff(x, y)) => TotalPassed
                /\ AtLeastOneCent(DecAbsDiff(x, y)) =>
                      /\ ~TotalPassed
                      /\ ~is_match
                      /\ Returned => final_status # "APPROVED"

\* C5: the vendor check passes if and only if the two vendors are equal after
\* strip() and lower(), two empty vendors included; a failure reports both
\* vendor strings as they came.
C5_VendorEquality ==
    (Len(explanations) >= 2 /\ "vendor" \in invoice_data.has /\ "vendor" \in po_data.has)
        => /\ VendorPassed
                <=> Lower(Strip(invoice_data.vendor)) = Lower(Strip(po_data.vendor))
           /\ ~VendorPassed =>
                /\ Entry(1).invoice = invoice_data.vendor
                /\ Entry(1).po = po_data.vendor

\* The line-item block has run.
ItemsChecked == Len(explanations) = 5 \/ raised = "TypeError"

CountsDiffer == Len(GetItems(invoice_data)) # Len(GetItems(po_data))

\* C6: when the two item counts differ the line-item check fails at once: its
\* finding reports both counts, neither sum is computed and the verdict is
\* not APPROVED; the sums are compared, with the same tolerance, only when
\* the counts are equal.
C6_CountMismatchSkipsSums ==
    /\ (ItemsChecked /\ CountsDiffer) =>
          /\ Entry(4) = [kind |-> "LineItemCountMismatch",
                         invoice |-> Len(GetItems(invoice_data)),
                         po |-> Len(GetItems(po_data))]
          /\ inv_sum_lines = Unset /\ po_sum_lines = Unset
          /\ raised = ""
          /\ ~is_match
          /\ Returned => final_status # "APPROVED"
    /\ (inv_sum_lines # Unset \/ po_sum_lines # Unset) => ~CountsDiffer
    /\ (ItemsChecked /\ ~CountsDiffer /\ raised = "") =>
          /\ inv_sum_lines = SumLines(GetItems(invoice_data))
          /\ po_sum_lines = SumLines(GetItems(po_data))
          /\ ItemsPassed <=> FLess(AbsDiff(inv_sum_lines, po_sum_lines), tolerance)

\* Counts 2 and 3, where the longer list holds a line total that cannot be
\* summed.
C6_Witness ==
    /\ Returned
    /\ Len(GetItems(invoice_data)) = 2
    /\ Len(GetItems(po_data)) = 3
    /\ ~CanSum(GetItems(invoice_data))
    /\ Entry(4).kind = "LineItemCountMismatch"

\* C7: perform_matching_logic is entered only after both uploads are there,
\* both texts were extracted and both structured extractions came back
\* without an error; when an extraction reports a failure the answer is an
\* error response, never a verdict.
C7_MatchOnlyAfterExtraction ==
    /\ (pc \in {"match", "vendor", "id", "total", "items", "final", "return"}
            \/ explanations # <<>> \/ final_status # "" \/ raised # "")
          => Extracted
    /\ (pc = "responded" /\ ("error" \in invoice_data.has \/ "error" \in po_data.has))
          => /\ response.status = "error"
             /\ response.code = 500
             /\ response.status \notin {"APPROVED", "NEEDS REVIEW", "NEEDS_REVIEW"}
             /\ explanations = <<>>
             /\ final_status = ""

\* The purchase order's extraction failed, the invoice's did not.
C7_Witness ==
    /\ pc = "responded"
    /\ "error" \in po_data.has
    /\ "error" \notin invoice_data.has
    /\ response.status = "error"

\* A record that cannot be normalised: an empty mapping, or one with a total,
\* line_total or unit_price that is no number.
NotCoercible(it) ==
    \/ "line_total" \in it.has /\ it.line_total.kind = "str"
    \/ "unit_price" \in it.has /\ it.unit_price.kind = "str"

Malformed(d) ==
    \/ d.has = {}
    \/ "total" \in d.has /\ d.total.kind = "str"
    \/ \E i \in 1..Len(GetItems(d)) : NotCoercible(GetItems(d)[i])

\* C8: a record that is an empty mapping, or holds a total, line_total or
\* unit_price that is no number, never gets a verdict or findings: the call
\* fails with SchemaError before any check result is returned.
C8_MalformedIsSchemaError ==
    (Extracted /\ (Malformed(invoice_data) \/ Malformed(po_data))) =>
        /\ ~Returned
        /\ response.status \notin {"APPROVED", "NEEDS REVIEW", "NEEDS_REVIEW"}
        /\ response.explanations = <<>>
        /\ pc = "responded" => raised = "SchemaError"

\* C9: the identifier finding at index 2 is always the passing one, and the
\* ids never change the verdict: two documents that differ only in id are
\* APPROVED.
C9_IdNeverChangesVerdict ==
    Returned =>
        /\ IdPassed
        /\ (Complete(invoice_data) /\ Complete(po_data)
              /\ invoice_data.id # po_data.id
              /\ [invoice_data EXCEPT !.id = po_data.id] = po_data)
            => final_status = "APPROVED"

\* C10: explanations[0] holds the placeholder while the checks run and is
\* overwritten after the fourth; what is returned is never the placeholder:
\* it is the all-clear message exactly when the verdict is APPROVED and the
\* flagged-for-review message otherwise, whichever checks failed.
C10_SummaryFinalised ==
    /\ pc \in {"vendor", "id", "total", "items", "final"} => Entry(0) = Placeholder
    /\ Returned =>
          /\ Entry(0).kind # Placeholder.kind
          /\ final_status = "APPROVED" <=> Entry(0).kind = "PerfectMatch"
          /\ final_status # "APPROVED" =>
                Entry(0) = [kind |-> "MismatchFound", status |-> "NEEDS REVIEW"]
          /\ response.code = 200 => response.explanations[1] = Entry(0)

\* A flagged return on which only the line items failed.
C10_Witness ==
    /\ pc = "responded"
    /\ response.code = 200
    /\ response.explanations[1].kind = "MismatchFound"
    /\ VendorPassed /\ TotalPassed /\ ~ItemsPassed

====
